---- MODULE Spec2Model ----
(***************************************************************************)
(* TradingView e-mail -> OANDA executor (src/oanda_tv_email_executor.py).  *)
(*                                                                         *)
(* Strings are TLA+ strings handled character by character (Len, SubSeq,   *)
(* \o) and a dict is a function whose DOMAIN is its key set.  A raised     *)
(* exception is carried in the field "raised" of what an operator returns  *)
(* ("none" when nothing is raised).                                        *)
(***************************************************************************)
EXTENDS Integers, Sequences, FiniteSets, TLC

VARIABLES
    d,          \* SpecAct: the field map handed to act_on_payload
    resp,       \* SpecAct: the brokerage's answer to the one request
    ret,        \* SpecAct: what the call did (ret.called: it was made)
    content,    \* SpecParse: the text handed to parse_kv
    kv,         \* SpecParse: what the call returned (kv.called: it was made)
    runs,       \* SpecPipe: the runs of parse_kv + act_on_payload so far
    allowed,    \* TV_ALLOWED_FROM
    mailbox,    \* the INBOX: sequence of messages, index = message number
    seen,       \* seen[n]: message n carries the \Seen flag on the server
    pc,         \* main(): "sleep" between cycles, "loop" inside the for loop,
                \* "exit" once the process has ended
    todo,       \* message numbers the for loop has still to iterate over
    iterated,   \* numbers whose loop body has run in the current cycle
    stores,     \* stores[n]: M.store calls for n in the current cycle
    last,       \* last[n]: path and result of the last loop body run for n
    acted,      \* acted[n]: times n was handed to act_on_payload
    calls,      \* calls[n]: brokerage requests n has caused
    sessions,   \* IMAP sessions opened and not logged out
    faults,     \* inbox operations that have failed so far
    audit       \* whether the history of the run (iterated, stores, last,
                \* acted, calls, sessions) is recorded

vars == <<d, resp, ret, content, kv, runs, allowed, mailbox, seen, pc, todo, iterated, stores,
          last, acted, calls, sessions, faults, audit>>

actVars == <<d, resp, ret>>
parseVars == <<content, kv>>
pipeVars == <<runs>>
loopVars == <<allowed, mailbox, seen, pc, todo, iterated, stores, last,
              acted, calls, sessions, faults, audit>>

-----------------------------------------------------------------------------
(* Python string primitives *)

Chr(s, i) == SubSeq(s, i, i)

LowerAlpha == "abcdefghijklmnopqrstuvwxyz"
UpperAlpha == "ABCDEFGHIJKLMNOPQRSTUVWXYZ"
Digits == "0123456789"

IsSpace(c) == c \in {" ", "\t", "\n", "\r"}

DigitMap == [c \in {Chr(Digits, i) : i \in 1..Len(Digits)} |->
                (CHOOSE i \in 1..Len(Digits) : Chr(Digits, i) = c) - 1]
IsDigit(c) == c \in DOMAIN DigitMap
DigitVal(c) == DigitMap[c]

UpperMap == [c \in {Chr(LowerAlpha, i) : i \in 1..Len(LowerAlpha)} |->
                Chr(UpperAlpha, CHOOSE i \in 1..Len(LowerAlpha) : Chr(LowerAlpha, i) = c)]
LowerMap == [c \in {Chr(UpperAlpha, i) : i \in 1..Len(UpperAlpha)} |->
                Chr(LowerAlpha, CHOOSE i \in 1..Len(UpperAlpha) : Chr(UpperAlpha, i) = c)]

UpperChar(c) == IF c \in DOMAIN UpperMap THEN UpperMap[c] ELSE c
LowerChar(c) == IF c \in DOMAIN LowerMap THEN LowerMap[c] ELSE c

RECURSIVE Upper(_)
Upper(s) == IF s = "" THEN "" ELSE UpperChar(Chr(s, 1)) \o Upper(Tail(s))

RECURSIVE Lower(_)
Lower(s) == IF s = "" THEN "" ELSE LowerChar(Chr(s, 1)) \o Lower(Tail(s))

RECURSIVE LStrip(_)
LStrip(s) == IF s # "" /\ IsSpace(Chr(s, 1)) THEN LStrip(Tail(s)) ELSE s

RECURSIVE RStrip(_)
RStrip(s) ==
    IF s # "" /\ IsSpace(Chr(s, Len(s)))
    THEN RStrip(SubSeq(s, 1, Len(s) - 1))
    ELSE s

Strip(s) == LStrip(RStrip(s))

\* str.find: the first index of character c in s, 0 when absent
RECURSIVE FindFrom(_, _, _)
FindFrom(s, c, i) ==
    IF i > Len(s) THEN 0
    ELSE IF Chr(s, i) = c THEN i
    ELSE FindFrom(s, c, i + 1)

Find(s, c) == FindFrom(s, c, 1)

\* sub in s
Contains(s, sub) ==
    \E i \in 1..(Len(s) - Len(sub) + 1) : SubSeq(s, i, i + Len(sub) - 1) = sub

\* the first index of a line break in text, 0 when there is none
RECURSIVE BreakFrom(_, _)
BreakFrom(text, i) ==
    IF i > Len(text) THEN 0
    ELSE IF Chr(text, i) \in {"\n", "\r"} THEN i
    ELSE BreakFrom(text, i + 1)

\* str.splitlines on "\n", "\r" and "\r\n"; no empty last line
RECURSIVE SplitLines(_)
SplitLines(text) ==
    IF text = "" THEN <<>>
    ELSE LET i == BreakFrom(text, 1)
         IN  IF i = 0 THEN <<text>>
             ELSE LET n == IF Chr(text, i) = "\r" /\ i < Len(text) /\ Chr(text, i + 1) = "\n"
                           THEN i + 1 ELSE i
                  IN  <<SubSeq(text, 1, i - 1)>> \o SplitLines(SubSeq(text, n + 1, Len(text)))

\* str(int(n))
RECURSIVE NatToStr(_)
NatToStr(n) ==
    IF n < 10 THEN Chr(Digits, n + 1)
    ELSE NatToStr(n \div 10) \o Chr(Digits, (n % 10) + 1)

IntToStr(n) == IF n < 0 THEN "-" \o NatToStr(-n) ELSE NatToStr(n)


-----------------------------------------------------------------------------
(* int(s) and float(s) *)

\* a run of digits in which single underscores may separate digits
DigitsOk(s) ==
    /\ s # ""
    /\ \A i \in 1..Len(s) : IsDigit(Chr(s, i)) \/ Chr(s, i) = "_"
    /\ IsDigit(Chr(s, 1)) /\ IsDigit(Chr(s, Len(s)))
    /\ \A i \in 1..(Len(s) - 1) : ~(Chr(s, i) = "_" /\ Chr(s, i + 1) = "_")

RECURSIVE DigitsVal(_)
DigitsVal(s) ==
    IF s = "" THEN 0
    ELSE IF Chr(s, Len(s)) = "_" THEN DigitsVal(SubSeq(s, 1, Len(s) - 1))
    ELSE 10 * DigitsVal(SubSeq(s, 1, Len(s) - 1)) + DigitVal(Chr(s, Len(s)))

RECURSIVE DigitCount(_)
DigitCount(s) ==
    IF s = "" THEN 0
    ELSE (IF IsDigit(Chr(s, 1)) THEN 1 ELSE 0) + DigitCount(Tail(s))

HasSign(s) == s # "" /\ Chr(s, 1) \in {"+", "-"}
Unsigned(s) == IF HasSign(s) THEN Tail(s) ELSE s
SignOf(s) == IF s # "" /\ Chr(s, 1) = "-" THEN -1 ELSE 1

\* int(s) raises ValueError unless IntOk(s)
IntOk(s) == DigitsOk(Unsigned(Strip(s)))
IntVal(s) == SignOf(Strip(s)) * DigitsVal(Unsigned(Strip(s)))

RECURSIVE Pow10(_)
Pow10(n) == IF n = 0 THEN 1 ELSE 10 * Pow10(n - 1)

\* the parts of a float literal without its sign: mantissa and exponent
ExpAt(u) == Find(Lower(u), "e")
Mantissa(u) == IF ExpAt(u) = 0 THEN u ELSE SubSeq(u, 1, ExpAt(u) - 1)
Exponent(u) == IF ExpAt(u) = 0 THEN "" ELSE SubSeq(u, ExpAt(u) + 1, Len(u))
IntPart(m) == IF Find(m, ".") = 0 THEN m ELSE SubSeq(m, 1, Find(m, ".") - 1)
FracPart(m) == IF Find(m, ".") = 0 THEN "" ELSE SubSeq(m, Find(m, ".") + 1, Len(m))

MantissaOk(m) ==
    /\ IntPart(m) = "" \/ DigitsOk(IntPart(m))
    /\ FracPart(m) = "" \/ DigitsOk(FracPart(m))
    /\ IntPart(m) # "" \/ FracPart(m) # ""

\* float(s) raises ValueError unless FloatOk(s)
FloatOk(s) ==
    LET u == Unsigned(Strip(s))
    IN  \/ Lower(u) \in {"inf", "infinity", "nan"}
        \/ /\ MantissaOk(Mantissa(u))
           /\ ExpAt(u) = 0 \/ DigitsOk(Unsigned(Exponent(u)))

NoFloat == [kind |-> "none", v |-> 0]

\* float(s) as a count of 1e-5 units (rounded half up at the 6th decimal),
\* or nan / inf / -inf
FloatVal(s) ==
    LET t == Strip(s)
        u == Unsigned(t)
        m == Mantissa(u)
        n == DigitsVal(IntPart(m)) * Pow10(DigitCount(FracPart(m))) + DigitsVal(FracPart(m))
        e == IF ExpAt(u) = 0 THEN 0
             ELSE SignOf(Exponent(u)) * DigitsVal(Unsigned(Exponent(u)))
        k == 5 + e - DigitCount(FracPart(m))
    IN  IF Lower(u) = "nan" THEN [kind |-> "nan", v |-> 0]
        ELSE IF Lower(u) \in {"inf", "infinity"}
             THEN [kind |-> IF SignOf(t) < 0 THEN "-inf" ELSE "inf", v |-> 0]
        ELSE [kind |-> "num",
              v |-> SignOf(t) * (IF k >= 0 THEN n * Pow10(k)
                                 ELSE (n + (Pow10(-k) \div 2)) \div Pow10(-k))]

\* _fmt_price: f"{p:.5f}"
RECURSIVE ZeroPad(_, _)
ZeroPad(s, w) == IF Len(s) >= w THEN s ELSE ZeroPad("0" \o s, w)

fmt_price(p) ==
    IF p.kind # "num" THEN p.kind
    ELSE LET a == IF p.v < 0 THEN -p.v ELSE p.v
         IN  (IF p.v < 0 THEN "-" ELSE "") \o NatToStr(a \div 100000)
             \o "." \o ZeroPad(NatToStr(a % 100000), 5)

-----------------------------------------------------------------------------
(* dict primitives *)

EmptyDict == [k \in {} |-> ""]
Get(dict, k, default) == IF k \in DOMAIN dict THEN dict[k] ELSE default
Put(dict, k, v) == [x \in (DOMAIN dict) \cup {k} |-> IF x = k THEN v ELSE dict[x]]

-----------------------------------------------------------------------------
(* Configuration, fixed at start-up (lines 36-59: none of the required     *)
(* values is empty, or the process has exited before main)                 *)

TV_SHARED_SECRET == "s3cret"
OANDA_ACCOUNT_ID == "001-001"
BASE_URL == "https://api-fxpractice.oanda.com/v3"

-----------------------------------------------------------------------------
(* parse_kv *)

parse_line_first_wins(out, raw) ==
    LET line == Strip(raw)
        i == Find(line, "=")
        k == Upper(Strip(SubSeq(line, 1, i - 1)))
    IN  IF line = "" \/ i = 0 \/ k \in DOMAIN out THEN out
        ELSE Put(out, k, Strip(SubSeq(line, i + 1, Len(line))))

\* lines 117-121
parse_line(out, raw) ==
    LET line == Strip(raw)
        i == Find(line, "=")
    IN  IF line = "" \/ i = 0 THEN out
        ELSE Put(out, Upper(Strip(SubSeq(line, 1, i - 1))),
                 Strip(SubSeq(line, i + 1, Len(line))))

RECURSIVE parse_lines(_, _)
parse_lines(out, lines) ==
    IF lines = <<>> THEN out
    ELSE parse_lines(parse_line(out, Head(lines)), Tail(lines))

parse_kv(text) == parse_lines(EmptyDict, SplitLines(text))

-----------------------------------------------------------------------------
(* The brokerage calls.  r is the answer of the HTTP transport to the one   *)
(* request: r.error (no response: connection error, timeout), else         *)
(* r.status and whether the body is JSON (r.json_ok).                      *)

\* requests' Response.raise_for_status raises HTTPError for 4xx and 5xx only
raise_for_status(status) == 400 <= status /\ status < 600

order_body(instrument, units, tp, sl) ==
    LET order == [type |-> "MARKET", instrument |-> instrument,
                  units |-> IntToStr(units), timeInForce |-> "FOK",
                  positionFill |-> "DEFAULT"]
        withTp == IF tp # NoFloat
                  THEN Put(order, "takeProfitOnFill", [price |-> fmt_price(tp)])
                  ELSE order
    IN  IF sl # NoFloat
        THEN Put(withTp, "stopLossOnFill", [price |-> fmt_price(sl)])
        ELSE withTp

market_order(instrument, units, tp, sl, r) ==
    [reqs |-> << [method |-> "POST",
                  url |-> BASE_URL \o "/accounts/" \o OANDA_ACCOUNT_ID \o "/orders",
                  data |-> [order |-> order_body(instrument, units, tp, sl)]] >>,
     raised |-> IF r.error THEN "ConnectionError"
                ELSE IF raise_for_status(r.status) THEN "HTTPError"
                ELSE IF ~r.json_ok THEN "ValueError"
                ELSE "none"]

close_payload(side) ==
    IF side = "long" THEN [longUnits |-> "ALL"]
    ELSE IF side = "short" THEN [shortUnits |-> "ALL"]
    ELSE [longUnits |-> "ALL", shortUnits |-> "ALL"]

close_raises_always(status) == raise_for_status(status)

\* lines 97-98: does close_position raise on this final status?
close_raises(status) ==
    status >= 300 /\ status # 404 /\ raise_for_status(status)

close_position(instrument, side, r) ==
    [reqs |-> << [method |-> "PUT",
                  url |-> BASE_URL \o "/accounts/" \o OANDA_ACCOUNT_ID
                          \o "/positions/" \o instrument \o "/close",
                  data |-> close_payload(side)] >>,
     raised |-> IF r.error THEN "ConnectionError"
                ELSE IF close_raises(r.status) THEN "HTTPError"
                ELSE "none"]   \* r.json() failing is caught: {"status": "ok"}

-----------------------------------------------------------------------------
(* act_on_payload *)

secret_matches_nocase(dd) == Upper(Get(dd, "SECRET", "")) = Upper(TV_SHARED_SECRET)

\* line 125
secret_matches(dd) == Get(dd, "SECRET", "") = TV_SHARED_SECRET

optional_price_lenient(s) ==
    IF s # "" /\ FloatOk(s) THEN [raised |-> "none", val |-> FloatVal(s)]
    ELSE [raised |-> "none", val |-> NoFloat]

\* lines 137, 138: float(s) if s else None
optional_price(s) ==
    IF s = "" THEN [raised |-> "none", val |-> NoFloat]
    ELSE IF FloatOk(s) THEN [raised |-> "none", val |-> FloatVal(s)]
    ELSE [raised |-> "ValueError", val |-> NoFloat]

\* line 149: int(qty_str) if qty_str else 0
coerce_qty(s) ==
    IF s = "" THEN [raised |-> "none", val |-> 0]
    ELSE IF IntOk(s) THEN [raised |-> "none", val |-> IntVal(s)]
    ELSE [raised |-> "ValueError", val |-> 0]

entry_units_unsigned(action, qty) == qty

\* lines 154, 157: the units argument of market_order
entry_units(action, qty) == IF action = "LONG_ENTRY" THEN qty ELSE -qty

\* str(x) of an Optional[float] in the result string
float_str(p) ==
    IF p = NoFloat THEN "None"
    ELSE IF p.kind # "num" THEN p.kind
    ELSE LET a == IF p.v < 0 THEN -p.v ELSE p.v
             sign == IF p.v < 0 THEN "-" ELSE ""
             frac == ZeroPad(NatToStr(a % 100000), 5)
             cut == CHOOSE i \in 1..5 :
                        /\ i = 1 \/ Chr(frac, i) # "0"
                        /\ \A j \in (i + 1)..5 : Chr(frac, j) = "0"
         IN  IF a = 0 THEN "0.0"
             ELSE IF a < 10 THEN sign \o NatToStr(a) \o "e-05"
             ELSE sign \o NatToStr(a \div 100000) \o "." \o SubSeq(frac, 1, cut)

Returned(result, reqs) == [result |-> result, raised |-> "none", reqs |-> reqs]
Raised(exc, reqs) == [result |-> "", raised |-> exc, reqs |-> reqs]

act_on_payload(dd, r) ==
    IF ~secret_matches(dd) THEN Returned("IGNORED (bad secret)", <<>>)
    ELSE
    LET instrument == Get(dd, "INSTRUMENT", "")
        action == Upper(Get(dd, "ACTION", ""))
        qty_str == Get(dd, "QTY", "0")
        tp_str == Get(dd, "TP", "")
        sl_str == Get(dd, "SL", "")
        tp == optional_price(tp_str)
        sl == optional_price(sl_str)
        q == coerce_qty(qty_str)
        qty == q.val
    IN  IF instrument = "" \/ action = ""
        THEN Returned("IGNORED (missing instrument/action)", <<>>)
        ELSE IF tp.raised # "none" THEN Raised(tp.raised, <<>>)
        ELSE IF sl.raised # "none" THEN Raised(sl.raised, <<>>)
        ELSE IF action = "EXIT_LONG"
        THEN LET c == close_position(instrument, "long", r)
             IN  IF c.raised # "none" THEN Raised(c.raised, c.reqs)
                 ELSE Returned("EXIT_LONG " \o instrument, c.reqs)
        ELSE IF action = "EXIT_SHORT"
        THEN LET c == close_position(instrument, "short", r)
             IN  IF c.raised # "none" THEN Raised(c.raised, c.reqs)
                 ELSE Returned("EXIT_SHORT " \o instrument, c.reqs)
        ELSE IF q.raised # "none" THEN Raised(q.raised, <<>>)
        ELSE IF qty <= 0 /\ action \in {"LONG_ENTRY", "SHORT_ENTRY"}
        THEN Returned("IGNORED (qty<=0)", <<>>)
        ELSE IF action \in {"LONG_ENTRY", "SHORT_ENTRY"}
        THEN LET m == market_order(instrument, entry_units(action, qty),
                                   tp.val, sl.val, r)
             IN  IF m.raised # "none" THEN Raised(m.raised, m.reqs)
                 ELSE Returned(action \o " " \o instrument
                               \o " qty=" \o IntToStr(qty)
                               \o " tp=" \o float_str(tp.val)
                               \o " sl=" \o float_str(sl.val), m.reqs)
        ELSE Returned("IGNORED (unknown action)", <<>>)

\* lines 206-212: the result string the polling loop logs for the message
run_payload(dd, r) ==
    LET a == act_on_payload(dd, r)
    IN  [reqs |-> a.reqs,
         result |-> IF a.raised = "none" THEN a.result
                    ELSE IF a.raised = "HTTPError"
                    THEN "HTTP ERROR: " \o a.raised
                    ELSE "ERROR: " \o a.raised]

-----------------------------------------------------------------------------
(* SpecAct: act_on_payload on every field map over the sample values, with *)
(* every answer of the brokerage.                                          *)

Absent == "<absent>"

SecretSamples == {Absent, "", TV_SHARED_SECRET, "S3CRET"}
InstrumentSamples == {Absent, "", "EUR_USD"}
ActionSamples == {Absent, "LONG_ENTRY", "short_entry", "EXIT_LONG",
                  "Exit_Short", "HOLD"}
QtySamples == {Absent, "", "0", "-5", "50000", "+7", "abc", "1.5"}
TpSamples == {Absent, "", "1.10500", "abc", "nan"}
SlSamples == {Absent, "1.1", "1,1"}
Statuses == {200, 302, 400, 404, 500}

FieldKeys == {"SECRET", "INSTRUMENT", "ACTION", "QTY", "TP", "SL"}

\* the dict of the fields that are not Absent
FieldMap(s, i, a, q, t, l) ==
    LET val(k) == CASE k = "SECRET" -> s [] k = "INSTRUMENT" -> i
                    [] k = "ACTION" -> a [] k = "QTY" -> q
                    [] k = "TP" -> t [] k = "SL" -> l
    IN  [k \in {x \in FieldKeys : val(x) # Absent} |-> val(k)]

FieldMaps ==
    { FieldMap(s, i, a, q, t, l) :
        s \in SecretSamples, i \in InstrumentSamples, a \in ActionSamples,
        q \in QtySamples, t \in TpSamples, l \in SlSamples }

NoResponse == [error |-> TRUE, status |-> 0, json_ok |-> FALSE]
Responses ==
    {NoResponse} \cup
    {[error |-> FALSE, status |-> st, json_ok |-> j] : st \in Statuses, j \in BOOLEAN}

NotCalled == [called |-> FALSE, result |-> "", reqs |-> <<>>]

ActIdle == d = EmptyDict /\ resp = NoResponse /\ ret = NotCalled

NotParsed == [called |-> FALSE, out |-> EmptyDict]

ParseIdle == content = "" /\ kv = NotParsed

PipeIdle == runs = <<>>

\* the loop's variables while only act_on_payload is exercised
LoopIdle ==
    /\ allowed = "" /\ mailbox = <<>> /\ seen = <<>> /\ pc = "sleep"
    /\ todo = <<>> /\ iterated = {} /\ stores = <<>> /\ last = <<>>
    /\ acted = <<>> /\ calls = <<>>
    /\ sessions = 0 /\ faults = 0 /\ audit = FALSE

ActInit ==
    /\ d \in FieldMaps
    /\ resp \in Responses
    /\ ret = NotCalled
    /\ ParseIdle
    /\ PipeIdle
    /\ LoopIdle

\* lines 206-212 for every field map and brokerage answer, tabulated
Outcomes == [dd \in FieldMaps |-> [r \in Responses |-> run_payload(dd, r)]]

\* lines 206-212: result = act_on_payload(d), exceptions turned into a result
CallAct ==
    /\ ~ret.called
    /\ ret' = [called |-> TRUE, result |-> Outcomes[d][resp].result,
               reqs |-> Outcomes[d][resp].reqs]
    /\ UNCHANGED <<d, resp>>
    /\ UNCHANGED parseVars
    /\ UNCHANGED pipeVars
    /\ UNCHANGED loopVars

ActNext == CallAct

SpecAct == ActInit /\ [][ActNext]_vars

-----------------------------------------------------------------------------
(* The outcome a result string stands for (spec 4.5) *)

StartsWith(s, prefix) == Len(s) >= Len(prefix) /\ SubSeq(s, 1, Len(prefix)) = prefix

IsIgnored(result) == StartsWith(result, "IGNORED")
IsFailed(result) == StartsWith(result, "HTTP ERROR") \/ StartsWith(result, "ERROR")
IsExecuted(result) == ~IsIgnored(result) /\ ~IsFailed(result)

Has(dd, k) == k \in DOMAIN dd
SecretGood(dd) == Has(dd, "SECRET") /\ dd["SECRET"] = TV_SHARED_SECRET
InstrumentGiven(dd) == Has(dd, "INSTRUMENT") /\ dd["INSTRUMENT"] # ""
ActionIs(dd, names) == Has(dd, "ACTION") /\ Upper(dd["ACTION"]) \in names
Entries == {"LONG_ENTRY", "SHORT_ENTRY"}
Exits == {"EXIT_LONG", "EXIT_SHORT"}
Malformed(dd, k) == Has(dd, k) /\ dd[k] # "" /\ ~FloatOk(dd[k])
Posts(reqs) == {i \in 1..Len(reqs) : reqs[i].method = "POST"}
Puts(reqs) == {i \in 1..Len(reqs) : reqs[i].method = "PUT"}
Without(dd, keys) == [k \in (DOMAIN dd) \ keys |-> dd[k]]

-----------------------------------------------------------------------------
(* Claims about act_on_payload, checked under SpecAct *)

\* C1: a field map whose SECRET is absent or differs (case-sensitively) from
\* the configured secret gives "IGNORED (bad secret)" and no brokerage
\* request, whatever the other fields hold.
C1_BadSecretIgnored ==
    (ret.called /\ ~SecretGood(d))
        => (ret.result = "IGNORED (bad secret)" /\ ret.reqs = <<>>)

\* a secret in the wrong case beside an entry with a malformed TP and QTY
C1_Witness ==
    /\ ret.called
    /\ Has(d, "SECRET") /\ d["SECRET"] = "S3CRET"
    /\ ActionIs(d, Entries) /\ Malformed(d, "TP")
    /\ Has(d, "QTY") /\ d["QTY"] = "abc"
    /\ ret.result = "IGNORED (bad secret)"

\* C4: with a matching secret and an instrument, EXIT_LONG (EXIT_SHORT) issues
\* exactly one close request with body {"longUnits":"ALL"}
\* ({"shortUnits":"ALL"}), and QTY, TP and SL change neither the request nor
\* the outcome.
C4_ExitIgnoresQtyTpSl ==
    (ret.called /\ SecretGood(d) /\ InstrumentGiven(d) /\ ActionIs(d, Exits))
        => /\ Len(ret.reqs) = 1
           /\ ret.reqs[1].method = "PUT"
           /\ ret.reqs[1].data =
                 (IF Upper(d["ACTION"]) = "EXIT_LONG"
                  THEN [longUnits |-> "ALL"] ELSE [shortUnits |-> "ALL"])
           /\ ret.result = run_payload(Without(d, {"QTY", "TP", "SL"}), resp).result

\* The action the field map is translated to (spec 4.3): an exit, or an
\* entry whose coerced quantity is positive and whose TP and SL parse.
MapsToExit(dd) == SecretGood(dd) /\ InstrumentGiven(dd) /\ ActionIs(dd, Exits)
MapsToEntry(dd) ==
    /\ SecretGood(dd) /\ InstrumentGiven(dd) /\ ActionIs(dd, Entries)
    /\ Has(dd, "QTY") /\ IntOk(dd["QTY"]) /\ IntVal(dd["QTY"]) > 0
    /\ ~Malformed(dd, "TP") /\ ~Malformed(dd, "SL")

\* C5: an invocation issues at most one brokerage request, and exactly one
\* (a POST for an entry, a PUT for an exit) when the field map maps to a
\* trading action.
C5_OneRequestPerAction ==
    ret.called
        => /\ Len(ret.reqs) <= 1
           /\ MapsToEntry(d) => (Len(ret.reqs) = 1 /\ Posts(ret.reqs) = {1})
           /\ MapsToExit(d) => (Len(ret.reqs) = 1 /\ Puts(ret.reqs) = {1})

\* C6: every market order sent carries units +q for LONG_ENTRY and -q for
\* SHORT_ENTRY, q being the strictly positive integer coerced from QTY.
C6_UnitsSignedPositive ==
    \A i \in Posts(ret.reqs) :
        /\ Has(d, "QTY") /\ IntOk(d["QTY"]) /\ IntVal(d["QTY"]) > 0
        /\ \/ /\ ActionIs(d, {"LONG_ENTRY"})
              /\ ret.reqs[i].data.order.units = IntToStr(IntVal(d["QTY"]))
           \/ /\ ActionIs(d, {"SHORT_ENTRY"})
              /\ ret.reqs[i].data.order.units = "-" \o IntToStr(IntVal(d["QTY"]))

\* a short entry of 50000 units was sent
C6_Witness ==
    /\ ret.called /\ Posts(ret.reqs) = {1}
    /\ ActionIs(d, {"SHORT_ENTRY"})
    /\ ret.reqs[1].data.order.units = "-50000"

\* C7: an entry with matching secret, an instrument and an integer QTY <= 0
\* gives "IGNORED (qty<=0)" and no brokerage request.
C7_NonPositiveQtyIgnored ==
    (/\ ret.called /\ SecretGood(d) /\ InstrumentGiven(d) /\ ActionIs(d, Entries)
     /\ Has(d, "QTY") /\ IntOk(d["QTY"]) /\ IntVal(d["QTY"]) <= 0)
        => (ret.result = "IGNORED (qty<=0)" /\ ret.reqs = <<>>)

\* C8: on the entry path a QTY that is absent, empty or not parsable as an
\* integer counts as 0: the outcome is "IGNORED (qty<=0)", not a failure.
C8_BadQtyCountsAsZero ==
    (/\ ret.called /\ SecretGood(d) /\ InstrumentGiven(d) /\ ActionIs(d, Entries)
     /\ (~Has(d, "QTY") \/ d["QTY"] = "" \/ ~IntOk(d["QTY"])))
        => (ret.result = "IGNORED (qty<=0)" /\ ~IsFailed(ret.result))

\* C9: an entry with QTY > 0 whose TP or SL is present, non-empty and not
\* parsable by float() ends Failed and sends no market order.
C9_MalformedPriceFails ==
    (/\ ret.called /\ SecretGood(d) /\ InstrumentGiven(d) /\ ActionIs(d, Entries)
     /\ Has(d, "QTY") /\ IntOk(d["QTY"]) /\ IntVal(d["QTY"]) > 0
     /\ (Malformed(d, "TP") \/ Malformed(d, "SL")))
        => (IsFailed(ret.result) /\ ret.reqs = <<>>)

\* a long entry of 50000 with a good TP and the stop-loss "1,1" has failed
C9_Witness ==
    /\ ret.called /\ SecretGood(d) /\ InstrumentGiven(d)
    /\ ActionIs(d, {"LONG_ENTRY"})
    /\ Has(d, "QTY") /\ d["QTY"] = "50000"
    /\ Has(d, "TP") /\ d["TP"] = "1.10500"
    /\ Has(d, "SL") /\ d["SL"] = "1,1"
    /\ ret.result = "ERROR: ValueError"

\* C10: a close request answered 404 gives the Executed outcome, whether or
\* not the response body is JSON.
C10_CloseNotFoundExecuted ==
    (ret.called /\ Puts(ret.reqs) # {} /\ ~resp.error /\ resp.status = 404)
        => /\ IsExecuted(ret.result)
           /\ ret.result = Upper(d["ACTION"]) \o " " \o d["INSTRUMENT"]

\* EXIT_LONG answered 404 with a body that is not JSON
C10_Witness ==
    /\ ret.called /\ Puts(ret.reqs) = {1}
    /\ ~resp.error /\ resp.status = 404 /\ ~resp.json_ok
    /\ ret.result = "EXIT_LONG EUR_USD"

\* C11: a close request whose final status is neither 2xx nor 404 (every
\* 3xx, every other 4xx, every 5xx) ends Failed, never Executed.
C11_CloseOtherStatusFails ==
    (/\ ret.called /\ Puts(ret.reqs) # {} /\ ~resp.error
     /\ ~(200 <= resp.status /\ resp.status < 300) /\ resp.status # 404)
        => IsFailed(ret.result)

\* C12: with matching secret, an instrument and a non-empty ACTION outside
\* the four known names, the outcome is Ignored with no brokerage request,
\* whatever QTY, TP and SL hold.
C12_UnknownActionIgnored ==
    (/\ ret.called /\ SecretGood(d) /\ InstrumentGiven(d)
     /\ Has(d, "ACTION") /\ d["ACTION"] # ""
     /\ ~ActionIs(d, Entries \cup Exits))
        => (IsIgnored(ret.result) /\ ~IsFailed(ret.result) /\ ret.reqs = <<>>)

-----------------------------------------------------------------------------
(* SpecParse: parse_kv on every text of up to MaxLines sample lines.       *)

MaxLines == 2     \* lines in a text

LineSamples == {"qty=1", "QTY=2", " Qty = 3 ", "Qty=4=5", "a=b=c", "=x",
                "  = y", "k=", "novalue", ""}
Separators == {"\n", "\r\n"}

RECURSIVE JoinLines(_, _)
JoinLines(ls, sep) ==
    IF Len(ls) = 1 THEN ls[1]
    ELSE ls[1] \o sep \o JoinLines(Tail(ls), sep)

Texts ==
    { JoinLines(ls, sep) :
        ls \in UNION { [1..k -> LineSamples] : k \in 1..MaxLines },
        sep \in Separators }

\* parse_kv, tabulated
ParsedTexts == [t \in Texts |-> parse_kv(t)]

ParseInit ==
    /\ content \in Texts
    /\ kv = NotParsed
    /\ ActIdle
    /\ PipeIdle
    /\ LoopIdle

\* line 204: d = parse_kv(content)
CallParse ==
    /\ ~kv.called
    /\ kv' = [called |-> TRUE, out |-> ParsedTexts[content]]
    /\ UNCHANGED content
    /\ UNCHANGED actVars
    /\ UNCHANGED pipeVars
    /\ UNCHANGED loopVars

ParseNext == CallParse

SpecParse == ParseInit /\ [][ParseNext]_vars

-----------------------------------------------------------------------------
(* Claims about parse_kv, checked under SpecParse *)

\* C15: every key of the returned map is non-empty, upper-cased and free of
\* surrounding whitespace, and every value is free of surrounding
\* whitespace, for lines of every shape that contain '='.
C15_KeysNonEmptyTrimmed ==
    kv.called =>
        \A k \in DOMAIN kv.out :
            /\ k # "" /\ k = Upper(k) /\ k = Strip(k)
            /\ kv.out[k] = Strip(kv.out[k])

\* The lines of the text that carry '=', and the key and the value each
\* stands for: cut at its first '=', the key trimmed and upper-cased, the
\* value trimmed.
FirstEq(line) == CHOOSE i \in 1..Len(line) :
                    Chr(line, i) = "=" /\ \A j \in 1..(i - 1) : Chr(line, j) # "="
KvLines(t) == {i \in 1..Len(SplitLines(t)) : Contains(SplitLines(t)[i], "=")}
KeyAt(t, i) ==
    LET line == Strip(SplitLines(t)[i])
    IN  Upper(Strip(SubSeq(line, 1, FirstEq(line) - 1)))
ValueAt(t, i) ==
    LET line == Strip(SplitLines(t)[i])
    IN  Strip(SubSeq(line, FirstEq(line) + 1, Len(line)))

\* C16: of several lines whose keys are equal after trimming and
\* upper-casing the last one gives the key its value, and a line is cut at
\* its first '=' only, so the value keeps every later '='.
C16_LastWinsFirstEq ==
    kv.called =>
        /\ DOMAIN kv.out = {KeyAt(content, i) : i \in KvLines(content)}
        /\ \A i \in KvLines(content) :
              (\A j \in KvLines(content) : j > i => KeyAt(content, j) # KeyAt(content, i))
                  => kv.out[KeyAt(content, i)] = ValueAt(content, i)
        /\ content = "qty=1\nQTY=2" => kv.out = [QTY |-> "2"]
        /\ content = "a=b=c" => kv.out = [A |-> "b=c"]

\* 'qty=1' followed by 'Qty=4=5' has been parsed
C16_Witness ==
    /\ kv.called
    /\ content = "qty=1\r\nQty=4=5"
    /\ kv.out = [QTY |-> "4=5"]

-----------------------------------------------------------------------------
(* The polling loop: main and fetch_unseen_and_execute.                    *)
(*                                                                         *)
(* A message is [from_hdr, subject, subject_ok, multipart, parts]: parts   *)
(* are its leaf parts [ctype, text], text being the decoded payload;       *)
(* subject_ok is FALSE when decoding the Subject header raises (line 187:  *)
(* an encoded word with an unknown charset or undecodable bytes).          *)

MaxMsgs == 2      \* messages in the inbox
MaxFaults == 1    \* inbox operations that fail in one run

TextPart(text) == [ctype |-> "text/plain", text |-> text]
HtmlPart(text) == [ctype |-> "text/html", text |-> text]
TvFrom == "TradingView <noreply@TradingView.com>"

GoodEntryMail ==
    [from_hdr |-> TvFrom, subject |-> "Alert: EURUSD", subject_ok |-> TRUE,
     multipart |-> FALSE,
     parts |-> << TextPart("SECRET=s3cret\nINSTRUMENT=EUR_USD\nACTION=LONG_ENTRY\nQTY=50000\nTP=1.10500\nSL=1.10000") >>]

\* a sender outside the allow-filter with a valid instruction
StrangerExitMail ==
    [from_hdr |-> "mallory@example.org", subject |-> "Alert", subject_ok |-> TRUE,
     multipart |-> TRUE,
     parts |-> << HtmlPart("<p>alert</p>"),
                  TextPart("secret = s3cret\r\ninstrument = EUR_USD\r\naction = exit_long") >>]

BadSubjectMail ==
    [from_hdr |-> TvFrom, subject |-> "=?x-unknown?B?QQ==?=", subject_ok |-> FALSE,
     multipart |-> FALSE,
     parts |-> << TextPart("SECRET=s3cret\nINSTRUMENT=EUR_USD\nACTION=SHORT_ENTRY\nQTY=7") >>]

\* no text/plain part: the subject is the content
HtmlOnlyMail ==
    [from_hdr |-> TvFrom, subject |-> "SECRET=guess", subject_ok |-> TRUE,
     multipart |-> TRUE,
     parts |-> << HtmlPart("<p>ACTION=EXIT_LONG</p>") >>]

BadTpMail ==
    [from_hdr |-> TvFrom, subject |-> "Alert", subject_ok |-> TRUE,
     multipart |-> FALSE,
     parts |-> << TextPart("SECRET=s3cret\nINSTRUMENT=EUR_USD\nACTION=EXIT_SHORT\nTP=1,105") >>]

\* the inbox holds messages by name
Mails == {"GoodEntry", "StrangerExit", "BadSubject", "HtmlOnly", "BadTp"}
MailOf ==
    [m \in Mails |->
        CASE m = "GoodEntry" -> GoodEntryMail
          [] m = "StrangerExit" -> StrangerExitMail
          [] m = "BadSubject" -> BadSubjectMail
          [] m = "HtmlOnly" -> HtmlOnlyMail
          [] m = "BadTp" -> BadTpMail]
Filters == {"", "noreply@tradingview.com"}

\* lines 193-200
RECURSIVE plain_text(_)
plain_text(parts) ==
    IF parts = <<>> THEN ""
    ELSE (IF Head(parts).ctype = "text/plain" THEN Head(parts).text \o "\n" ELSE "")
         \o plain_text(Tail(parts))

body_text(mail) ==
    IF mail.multipart THEN plain_text(mail.parts)
    ELSE IF mail.parts[1].ctype = "text/plain" THEN mail.parts[1].text
    ELSE ""

\* line 203
content_of(mail) ==
    IF Strip(body_text(mail)) # "" THEN body_text(mail) ELSE mail.subject

sender_allowed_any(filter, from_hdr) == TRUE

\* line 189: the message passes the sender allow-filter
sender_allowed(filter, from_hdr) ==
    ~(filter # "" /\ ~Contains(Lower(from_hdr), Lower(filter)))

\* What an inbox operation answers: "OK", "NO" (a refusal, returned and not
\* raised) or "raise" (imaplib raises: the connection broke, a BAD answer).
ImapResults == {"OK", "NO", "raise"}
Cost(x) == IF x = "OK" THEN 0 ELSE 1

\* the brokerage answers the loop is run under: no response, a success, a
\* redirect, not-found and a server error
LoopResponses ==
    {r \in Responses : r.error \/ (r.status \in {200, 302, 404, 500} /\ r.json_ok = (r.status = 200))}

Step(p, nstores, marked, raised, run) ==
    [path |-> p, stores |-> nstores, marked |-> marked, raised |-> raised,
     acted |-> IF p = "acted" THEN 1 ELSE 0,
     reqs |-> run.reqs, result |-> run.result]

NoRun == [reqs |-> <<>>, result |-> ""]

\* last[n] of a message the loop has not handled
NotHandled == [path |-> "none", result |-> ""]

\* The loop's three computations on a message, tabulated per message:
\* line 204, d = parse_kv(content)
Parsed == [m \in Mails |-> parse_kv(content_of(MailOf[m]))]
\* line 189, the allow-filter on its From header
Passes == [fl \in Filters, m \in Mails |-> sender_allowed(fl, MailOf[m].from_hdr)]
\* lines 206-212, the result of act_on_payload(d) under each brokerage answer
Ran == [m \in Mails, r \in LoopResponses |-> run_payload(Parsed[m], r)]

\* a pipeline that remembers the texts it has been run on
pipeline_memo(mail, r) ==
    IF \E i \in 1..Len(runs) : runs[i].mail = mail
    THEN [reqs |-> <<>>, result |-> "IGNORED (duplicate)"]
    ELSE Ran[mail, r]

\* lines 204-212: d = parse_kv(content), result = act_on_payload(d), on
\* the content of the message, with the brokerage answering r
pipeline(mail, r) == Ran[mail, r]

\* lines 180-191: where the try block goes before it parses the content.
\* f answers M.fetch.
route(filter, mail, f) ==
    IF f = "raise" THEN "fetch_raise"
    ELSE IF f # "OK" THEN "fetch_not_ok"
    ELSE IF ~MailOf[mail].subject_ok THEN "header_raise"
    ELSE IF ~Passes[filter, mail] THEN "filtered"
    ELSE "acted"

\* lines 179-214: the try block of the loop body.  s1 answers the M.store
\* of line 190, r is the brokerage's answer.
try_block(filter, mail, f, s1, r) ==
    LET p == route(filter, mail, f)
    IN  IF p = "fetch_raise" \/ p = "header_raise" THEN Step(p, 0, FALSE, TRUE, NoRun)
        ELSE IF p = "fetch_not_ok" THEN Step(p, 0, FALSE, FALSE, NoRun)
        ELSE IF p = "filtered" THEN Step(p, 1, s1 = "OK", s1 = "raise", NoRun)
        ELSE Step(p, 0, FALSE, FALSE, pipeline(mail, r))

finally_skipped(t, s2) == t

\* lines 215-217: finally: M.store(num, '+FLAGS', '\\Seen'), answered s2;
\* an exception raised here, or pending from the try block, leaves the loop
finally_store(t, s2) ==
    [t EXCEPT !.stores = @ + 1,
              !.marked = @ \/ s2 = "OK",
              !.raised = @ \/ s2 = "raise"]

loop_body(filter, mail, f, s1, s2, r) ==
    finally_store(try_block(filter, mail, f, s1, r), s2)

Unseen == {n \in 1..Len(mailbox) : ~seen[n]}

RECURSIVE Ascending(_)
Ascending(S) ==
    IF S = {} THEN <<>>
    ELSE LET n == CHOOSE x \in S : \A y \in S : x <= y
         IN  <<n>> \o Ascending(S \ {n})

Inboxes ==
    UNION { [1..k -> Mails] : k \in 1..MaxMsgs }

\* the history variable v after a step that makes it new
Recorded(v, new) == IF audit THEN new ELSE v

\* main is entered with the configuration complete (lines 49-59) and some
\* unread messages in the inbox
Start ==
    /\ ActIdle
    /\ ParseIdle
    /\ PipeIdle
    /\ allowed \in Filters
    /\ mailbox \in Inboxes
    /\ seen = [n \in 1..Len(mailbox) |-> FALSE]
    /\ pc = "sleep"
    /\ todo = <<>>
    /\ iterated = {}
    /\ stores = [n \in 1..Len(mailbox) |-> 0]
    /\ last = [n \in 1..Len(mailbox) |-> NotHandled]
    /\ acted = [n \in 1..Len(mailbox) |-> 0]
    /\ calls = [n \in 1..Len(mailbox) |-> 0]
    /\ sessions = 0
    /\ faults = 0

Init == Start /\ audit = TRUE

main_propagates == "exit"

\* lines 225-229: main catches the exception a cycle raises, logs it and
\* sleeps; the value is main's position afterwards
main_on_exception == "sleep"

\* lines 224-226, 170-178: after the sleep, main calls
\* fetch_unseen_and_execute: connect, login, select, search
BeginCycle ==
    /\ pc = "sleep"
    /\ \E how \in {"ok", "connect_raise", "login_raise", "search_raise", "search_no"} :
          /\ faults + (IF how = "ok" THEN 0 ELSE 1) <= MaxFaults
          /\ faults' = faults + (IF how = "ok" THEN 0 ELSE 1)
          /\ iterated' = Recorded(iterated, {})
          /\ stores' = Recorded(stores, [n \in 1..Len(mailbox) |-> 0])
          /\ IF how = "ok"
             THEN /\ pc' = "loop"
                  /\ todo' = Ascending(Unseen)
                  /\ sessions' = Recorded(sessions, sessions + 1)
             ELSE /\ pc' = IF how = "search_no" THEN "sleep" ELSE main_on_exception
                  /\ todo' = <<>>
                  \* the connection of a failed login or search is not logged
                  \* out; search's "NO" is (lines 174-176)
                  /\ sessions' = IF how \in {"login_raise", "search_raise"}
                                 THEN Recorded(sessions, sessions + 1) ELSE sessions
    /\ UNCHANGED <<allowed, mailbox, seen, last, acted, calls, audit>>
    /\ UNCHANGED actVars
    /\ UNCHANGED parseVars
    /\ UNCHANGED pipeVars

\* lines 178-217: one iteration of the for loop.  A FETCH of RFC822 may set
\* \Seen on the server by itself (RFC 3501) or not (a read-only mailbox).
HandleMessage ==
    /\ pc = "loop"
    /\ todo # <<>>
    /\ \E f \in ImapResults :
       \E p \in {route(allowed, mailbox[Head(todo)], f)} :
       \E s1 \in (IF p = "filtered" THEN ImapResults ELSE {"OK"}),
          s2 \in ImapResults,
          r \in (IF p = "acted" THEN LoopResponses ELSE {NoResponse}),
          implicit \in (IF f = "OK" THEN BOOLEAN ELSE {FALSE}) :
       \E b \in {loop_body(allowed, mailbox[Head(todo)], f, s1, s2, r)} :
          LET n == Head(todo)
              cost == Cost(f) + Cost(s2) + (IF p = "filtered" THEN Cost(s1) ELSE 0)
          IN  /\ faults + cost <= MaxFaults
              /\ faults' = faults + cost
              /\ seen' = [seen EXCEPT ![n] = @ \/ b.marked \/ implicit]
              /\ stores' = Recorded(stores, [stores EXCEPT ![n] = @ + b.stores])
              /\ iterated' = Recorded(iterated, iterated \cup {n})
              /\ last' = Recorded(last, [last EXCEPT ![n] =
                                            [path |-> b.path, result |-> b.result]])
              /\ acted' = Recorded(acted, [acted EXCEPT ![n] = @ + b.acted])
              /\ calls' = Recorded(calls, [calls EXCEPT ![n] = @ + Len(b.reqs)])
              /\ IF b.raised
                 THEN \* the exception leaves the for loop (lines 227-229)
                      pc' = main_on_exception /\ todo' = <<>>
                 ELSE pc' = "loop" /\ todo' = Tail(todo)
    /\ UNCHANGED <<allowed, mailbox, sessions, audit>>
    /\ UNCHANGED actVars
    /\ UNCHANGED parseVars
    /\ UNCHANGED pipeVars

\* lines 219-220, 229: M.close(), M.logout(), back in main, sleep
EndCycle ==
    /\ pc = "loop"
    /\ todo = <<>>
    /\ \E c \in {"OK", "raise"}, lo \in {"OK", "raise"} :
          /\ c = "raise" => lo = "OK"
          /\ faults + Cost(c) + Cost(lo) <= MaxFaults
          /\ faults' = faults + Cost(c) + Cost(lo)
          /\ sessions' = IF c = "OK" /\ lo = "OK"
                         THEN Recorded(sessions, sessions - 1) ELSE sessions
          /\ pc' = IF c = "OK" /\ lo = "OK" THEN "sleep" ELSE main_on_exception
    /\ UNCHANGED <<allowed, mailbox, seen, todo, iterated, stores, last, acted,
                   calls, audit>>
    /\ UNCHANGED actVars
    /\ UNCHANGED parseVars
    /\ UNCHANGED pipeVars

Next == BeginCycle \/ HandleMessage \/ EndCycle

Spec == Init /\ [][Next]_vars

\* The runs of main without their history.  Every step of main ends:
\* time.sleep returns, the for loop is over a finite list, and an inbox or
\* brokerage operation returns or raises.
LiveInit == Start /\ audit = FALSE

LiveSpec == LiveInit /\ [][Next]_vars /\ WF_vars(Next)

-----------------------------------------------------------------------------
(* SpecPipe: parse_kv followed by act_on_payload, run again and again on   *)
(* the contents of the sample messages.                                    *)

MaxRuns == 3      \* runs of the pipeline

PipeInit ==
    /\ runs = <<>>
    /\ ActIdle
    /\ ParseIdle
    /\ LoopIdle

\* lines 204-212, once more
RunPipeline ==
    /\ Len(runs) < MaxRuns
    /\ \E m \in Mails, r \in LoopResponses :
       \E o \in {pipeline(m, r)} :
          runs' = Append(runs, [mail |-> m, resp |-> r,
                                reqs |-> o.reqs, result |-> o.result])
    /\ UNCHANGED actVars
    /\ UNCHANGED parseVars
    /\ UNCHANGED loopVars

PipeNext == RunPipeline

SpecPipe == PipeInit /\ [][PipeNext]_vars

-----------------------------------------------------------------------------
(* Claims about the polling loop, checked under Spec *)

\* C2: within one polling cycle the mark-as-read store is issued exactly
\* once for every message the loop has iterated over, on every path.
C2_StoreExactlyOnce == \A n \in iterated : stores[n] = 1

\* C3: a message handed to act_on_payload once is never handed to it again,
\* and causes at most one brokerage request in total.
C3_ActedAtMostOnce ==
    \A n \in 1..Len(mailbox) : acted[n] <= 1 /\ calls[n] <= 1

\* C13: no failure inside a polling cycle ends the process: main is never
\* left, and polling cycles are started again and again forever.
C13_CyclesRecur ==
    /\ [](pc \in {"sleep", "loop"})
    /\ []<><<BeginCycle>>_vars

\* A cycle is under way after an earlier one was left by an exception: with
\* no inbox operation failed, the message with the undecodable Subject is
\* read only because line 187 raised and the finally clause stored \Seen.
C13_Witness ==
    /\ pc = "loop" /\ todo # <<>> /\ faults = 0
    /\ \E n \in 1..Len(mailbox) : mailbox[n] = "BadSubject" /\ seen[n]

\* C14: a failure while handling one unread message does not keep the later
\* unread messages of the same cycle from being handled: the for loop is
\* left only when no message of the cycle is left behind the one handled.
C14_LaterMessagesHandled ==
    [][(pc = "loop" /\ pc' # "loop" /\ todo # <<>>) => Tail(todo) = <<>>]_vars

\* the messages whose From header does not contain the configured filter
Outsiders ==
    [fl \in Filters |->
        {m \in Mails : fl # "" /\ ~Contains(Lower(MailOf[m].from_hdr), Lower(fl))}]

\* message n is from a sender outside the configured allow-filter
Stranger(n) == mailbox[n] \in Outsiders[allowed]

\* C18: with the allow-filter configured, a message whose From header does
\* not contain it (case-insensitively) is never handed to act_on_payload and
\* causes no brokerage request; the loop stores \Seen for it, and it is read
\* when no inbox operation has failed.
C18_StrangerNeverActed ==
    \A n \in 1..Len(mailbox) :
        Stranger(n) =>
            /\ acted[n] = 0 /\ calls[n] = 0 /\ last[n].path # "acted"
            /\ (n \in iterated /\ last[n].path = "filtered")
                   => (stores[n] >= 1 /\ (faults = 0 => seen[n]))

\* the stranger's valid exit instruction was filtered out and marked read
C18_Witness ==
    \E n \in 1..Len(mailbox) :
        /\ Stranger(n) /\ mailbox[n] = "StrangerExit"
        /\ SecretGood(Parsed[mailbox[n]]) /\ ActionIs(Parsed[mailbox[n]], Exits)
        /\ last[n].path = "filtered" /\ seen[n] /\ calls[n] = 0

\* C19: when inbox operations fail only finitely often, every unread message
\* is eventually marked read, and stays read.
C19_EventuallyRead == <>[](Unseen = {})

\* both messages are read although an inbox operation failed and the first
\* message, with its undecodable Subject, ended its cycle
C19_Witness ==
    /\ Len(mailbox) >= 2 /\ Unseen = {} /\ faults > 0
    /\ mailbox[1] = "BadSubject" /\ pc = "sleep"

\* C20: every session a polling cycle opens is logged out before the cycle
\* ends: whenever fetch_unseen_and_execute leaves its for loop, normally or
\* by an exception, the session it opened has been logged out.
C20_LoopExitLogsOut ==
    [][(pc = "loop" /\ pc' # "loop") => sessions' = sessions - 1]_vars

=============================================================================
